---- MODULE Spec2Model ----
(***************************************************************************)
(* A model of download_tickets.py: the mailbox scan of main(), the         *)
(* "already processed?" decision of check_if_already_processed, the ticket *)
(* resolution of fetch_tickets, the reply built by prepare_ticket_email    *)
(* and the ledger file completed_messages.json, over several runs of the   *)
(* script on the same mailbox.                                             *)
(*                                                                         *)
(* Strings whose content decides a branch (subjects, the IMAP search key)  *)
(* are sequences of one-character strings, so that "Re: " and "Re " differ *)
(* by the colon as they do in the program.                                 *)
(***************************************************************************)
EXTENDS Integers, Sequences, FiniteSets, TLC

----------------------------------------------------------------------------
(* Bounds of the model *)

\* the most source emails the initial search returns
MaxMsgs == 2
\* the most ticket links in one source email
MaxUrls == 2
\* the most runs of the script
MaxRuns == 2

----------------------------------------------------------------------------
(* Program constants *)

EMAIl_ID_STRING == "cmenon12-download-trainline-tickets"

\* timedelta(minutes=10)
ReplyDelayMinutes == 10

\* the value of a Python None, as a mailbox-message-shaped record
None ==
  [kind |-> "None", id |-> [local |-> 0, idstring |-> ""], subject |-> <<>>,
   date |-> 0, dateOK |-> TRUE, inReplyTo |-> [local |-> 0, idstring |-> ""],
   references |-> [local |-> 0, idstring |-> ""], flags |-> {},
   body |-> [ctype |-> "text/plain", hrefs |-> <<>>, parts |-> <<>>], att |-> <<>>]

\* the ledger file does not exist
NoFile == [exists |-> FALSE, list |-> <<>>]

\* the ledger file after json.dump(list(completed), ...)
FileOf(list) == [exists |-> TRUE, list |-> list]

\* IMAP statuses of search, fetch and append
Status == {"OK", "NO"}

----------------------------------------------------------------------------
(* Strings *)

\* Python's `key in text` on strings, and IMAP's substring match
IsSubstring(key, text) ==
  \E i \in 0..(Len(text) - Len(key)) : SubSeq(text, i + 1, i + Len(key)) = key

\* a reply subject without the colon
ReplySubject_nocolon(subject) == <<"R", "e", " ">> \o subject

\* f"Re: {message['Subject']}"
ReplySubject(subject) == <<"R", "e", ":", " ">> \o subject

\* the string searched for: f'Re {message["Subject"]}'
SearchKey(subject) == <<"R", "e", " ">> \o subject

\* subjects of the source emails; the first is a prefix of the second
Subjects == {<<"a">>, <<"a", "b">>}

\* EMAIl_ID_STRING in email_message["Message-ID"]
HasMarker(msgid) == msgid.idstring = EMAIl_ID_STRING

\* email.utils.make_msgid(idstring=EMAIl_ID_STRING, ...): a fresh id carrying the marker
make_msgid(n) == [local |-> n, idstring |-> EMAIl_ID_STRING]

----------------------------------------------------------------------------
(* Links.  A link is a sequence of pieces of text; "#" is a piece by itself. *)

\* "download.thetrainline.com"
TicketHost == "download.thetrainline.com"

RECURSIVE Split(_, _)
\* text.split(sep)
Split(text, sep) ==
  IF \A i \in 1..Len(text) : text[i] # sep THEN <<text>>
  ELSE LET i == CHOOSE i \in 1..Len(text) :
                  text[i] = sep /\ \A k \in 1..(i - 1) : text[k] # sep
       IN  <<SubSeq(text, 1, i - 1)>> \o Split(SubSeq(text, i + 1, Len(text)), sep)

\* the j-th ticket link of an email of the seller: a page and a token after "#"
TicketLink(j) == <<TicketHost, "/", ToString(j), "#", "t", ToString(j)>>

\* the request id that the landing page of a link declares in
\* `var requestId = '<ID>';`: the seller's server names it after the page
PageRequestId(url) == <<"r">> \o Tail(Split(url, "#")[1])

\* f"https://download.thetrainline.com/resource/{req_id}"
ResourceUrl(req_id) == <<TicketHost, "/", "resource", "/">> \o req_id

\* session.cookies.set(f"token-{req_id}", token), with the name of a cookie
\* that belongs to no request
CookieFor_unnamed(req_id, token) == [name |-> <<"token-">>, value |-> token]

\* session.cookies.set(f"token-{req_id}", token)
CookieFor(req_id, token) == [name |-> <<"token-">> \o req_id, value |-> token]

\* a call on the requests.Session of the j-th link
GetCall(j, url, status) ==
  [op |-> "get", session |-> j, url |-> url, name |-> <<>>, value |-> <<>>,
   status |-> status]

SetCookieCall(j, cookie) ==
  [op |-> "cookies.set", session |-> j, url |-> <<>>, name |-> cookie.name,
   value |-> cookie.value, status |-> "-"]

----------------------------------------------------------------------------
(* The HTTP collaborator: what the two GETs of one link answer.  Fields    *)
(* the program never comes to read are "-".                                *)

ScriptsNoMatch ==
  {<<>>, <<"null">>, <<"nomatch">>, <<"nomatch", "match">>}
ScriptsMatch == {<<"match">>, <<"null", "match">>}

Responses ==
  {[get1 |-> "err", scripts |-> <<>>, get2 |-> "-", ctype |-> "-"]}
  \cup {[get1 |-> "ok", scripts |-> s, get2 |-> "-", ctype |-> "-"] : s \in ScriptsNoMatch}
  \cup {[get1 |-> "ok", scripts |-> s, get2 |-> "err", ctype |-> "-"] : s \in ScriptsMatch}
  \cup {[get1 |-> "ok", scripts |-> s, get2 |-> "ok", ctype |-> c] :
          s \in ScriptsMatch, c \in {"application/pdf", "application/json"}}

----------------------------------------------------------------------------
VARIABLES
  mailbox,      \* the messages of the inbox, in sequence-number order
  ledgerFile,   \* completed_messages.json: whether it exists, and the list in it
  completed,    \* main's list `completed`
  loaded,       \* what get_completed_messages returned in this run
  pc,           \* where the run is: idle, scan, done, exited, crashed, killed
  items,        \* the sequence numbers the initial search returned
  idx,          \* position in items of the next candidate
  since,        \* main's `since`, the lower bound on the Date of a candidate
  log,          \* per candidate: what the run did with it
  raised,       \* the exception that left main, or "none"
  imapState,    \* the connection: NONE, SELECTED, AUTH, LOGOUT
  closeCalls,   \* calls of server.close in this run
  logoutCalls,  \* calls of server.logout in this run
  ledgerWrites, \* calls of json.dump in this run
  mboxLen0,     \* length of the mailbox when the run started
  runs,         \* runs started so far
  lastRun,      \* the ids answered by the last run, if it completed and its ledger is intact
  prev,         \* lastRun as it was when this run started
  fetchRun,     \* a call of fetch_tickets by itself: its arguments and its result
  parseRun      \* a call of parse_message by itself: its argument and its result

\* the state of the runs of main
scanVars == <<mailbox, ledgerFile, completed, loaded, pc, items, idx, since, log, raised,
              imapState, closeCalls, logoutCalls, ledgerWrites, mboxLen0, runs, lastRun,
              prev>>

vars == <<mailbox, ledgerFile, completed, loaded, pc, items, idx, since, log, raised,
          imapState, closeCalls, logoutCalls, ledgerWrites, mboxLen0, runs, lastRun, prev,
          fetchRun, parseRun>>

----------------------------------------------------------------------------
(* Messages and ledger records *)

NoId == [local |-> 0, idstring |-> ""]

\* a body part that is not multipart: its content type and, of an HTML part,
\* the href of each <a href=...> of the document, in document order
Part(ctype, hrefs) == [ctype |-> ctype, hrefs |-> hrefs, parts |-> <<>>]

\* a multipart body, or a multipart part of one, and its direct parts
Multipart(parts) == [ctype |-> "multipart/alternative", hrefs |-> <<>>, parts |-> parts]

\* what a confirmation email can look like: its subject, the number of ticket
\* links in its HTML body, and whether its Date header is in EMAIL_DATE_FORMAT.
\* Of an email with a malformed Date the program reads nothing else.
Shapes ==
  {[subject |-> s, nurls |-> n, dateOK |-> TRUE] : s \in Subjects, n \in 0..MaxUrls}
  \cup {[subject |-> <<"a">>, nurls |-> 0, dateOK |-> FALSE]}

\* a confirmation email of the ticket seller, the i-th message of the inbox
SourceEmail(i, shape) ==
  [kind |-> "source", id |-> [local |-> i, idstring |-> ""], subject |-> shape.subject,
   date |-> i, dateOK |-> shape.dateOK, inReplyTo |-> NoId, references |-> NoId,
   flags |-> {},
   body |-> Multipart(<<Part("text/plain", <<>>),
                        Part("text/html", [j \in 1..shape.nurls |-> TicketLink(j)])>>),
   att |-> <<>>]

\* any other message of the inbox, with the script's marker in its Message-ID or not
OtherEmail(i, subject, marked) ==
  [kind |-> "other",
   id |-> [local |-> i, idstring |-> IF marked THEN EMAIl_ID_STRING ELSE ""],
   subject |-> subject, date |-> i, dateOK |-> TRUE, inReplyTo |-> NoId,
   references |-> NoId, flags |-> {}, body |-> Part("text/plain", <<>>), att |-> <<>>]

\* {"id": message["Message-ID"], "date": message["Date"], "subject": message["Subject"]}
Record(message) ==
  [id |-> message.id, date |-> message.date, subject |-> message.subject]

\* [c["id"] for c in completed]
Ids(list) == {list[k].id : k \in 1..Len(list)}

\* how many records of a list carry an id
CountId(list, id) == Cardinality({k \in 1..Len(list) : list[k].id = id})

----------------------------------------------------------------------------
(* get_completed_messages *)

\* a loader that never reads the file
get_completed_messages_lost(file) == <<>>

\* the list of the file, or an empty list when there is no file
get_completed_messages(file) == IF file.exists THEN file.list ELSE <<>>

----------------------------------------------------------------------------
(* parse_message and fetch_tickets *)

\* the ticket links of the message's HTML body, in document order
\* message.is_multipart()
IsMultipart(body) == body.ctype = "multipart/alternative"

\* `for part in message.get_payload(): if part.get_content_type() == "text/html":
\* html = ...`: the loop has no break, so the last text/html part among the
\* direct parts stays in html; <<>> stands for no html and for html without links
HtmlOf(parts) ==
  LET html == {i \in 1..Len(parts) : parts[i].ctype = "text/html"}
  IN  IF html = {} THEN <<>>
      ELSE parts[CHOOSE i \in html : \A k \in html : i >= k].hrefs

\* "download.thetrainline.com" in a["href"]
OnTicketHost(href) == \E i \in 1..Len(href) : href[i] = TicketHost

parse_message(message) ==
  LET html == IF IsMultipart(message.body) THEN HtmlOf(message.body.parts)
              ELSE IF message.body.ctype = "text/html" THEN message.body.hrefs
              ELSE <<>>
  IN  SelectSeq(html, OnTicketHost)

\* script.string is not None
IsInline(script) == script # "null"

\* a search that looks at every inline script
RequestIdFound_anywhere(all_js) == \E i \in 1..Len(all_js) : all_js[i] = "match"

\* re.search(pattern, all_js[0]) finds `var requestId = '<ID>';`
RequestIdFound(all_js) == all_js[1] = "match"

\* a test that takes any answer for a PDF
IsPdf_any(ctype) == TRUE

\* response.headers["Content-Type"] == "application/pdf"
IsPdf(ctype) == ctype = "application/pdf"

\* fetch_tickets is left by an exception raised at a line, in the j-th iteration
Raised(exc, line, j, calls) ==
  [raised |-> exc, line |-> line, at |-> j, tickets |-> <<>>, calls |-> calls]

RECURSIVE FetchFrom(_, _, _, _, _)
\* the for loop of fetch_tickets from the j-th url on: `tickets` resolved so
\* far, `calls` made so far on the sessions
FetchFrom(urls, resp, j, tickets, calls) ==
  IF j > Len(urls)
  THEN [raised |-> "none", line |-> 0, at |-> 0, tickets |-> tickets, calls |-> calls]
  ELSE LET url == urls[j]
           r == resp[j]
           calls1 == Append(calls, GetCall(j, url, r.get1))
           all_js == SelectSeq(r.scripts, IsInline)
           req_id == PageRequestId(url)
           pieces == Split(url, "#")
           calls2 == Append(calls1, SetCookieCall(j, CookieFor(req_id, pieces[2])))
           calls3 == Append(calls2, GetCall(j, ResourceUrl(req_id), r.get2))
       IN  IF r.get1 # "ok" THEN Raised("HTTPError", 144, j, calls1)
           ELSE IF all_js = <<>> THEN Raised("IndexError", 151, j, calls1)
           ELSE IF ~RequestIdFound(all_js) THEN FetchFrom(urls, resp, j + 1, tickets, calls1)
           ELSE IF Len(pieces) < 2 THEN Raised("IndexError", 156, j, calls1)
           ELSE IF r.get2 # "ok" THEN Raised("HTTPError", 164, j, calls3)
           ELSE IF ~IsPdf(r.ctype) THEN FetchFrom(urls, resp, j + 1, tickets, calls3)
           ELSE FetchFrom(urls, resp, j + 1, Append(tickets, req_id), calls3)

fetch_tickets(urls, resp) == FetchFrom(urls, resp, 1, <<>>, <<>>)

----------------------------------------------------------------------------
(* check_if_already_processed *)

\* a check that skips the saved ids
InCompleted_never(message, list) == FALSE

\* message["Message-ID"] in [c["id"] for c in completed]
InCompleted(message, list) == message.id \in Ids(list)

\* server.search(None, '(HEADER Subject "<key>")'): the sequence numbers of the
\* messages whose Subject header contains the key
HeaderSubjectSearch(mbox, key) ==
  {k \in 1..Len(mbox) : IsSubstring(key, mbox[k].subject)}

\* the result, and the server.search and server.fetch calls it made
check_if_already_processed(mbox, message, list, searchStatus) ==
  IF InCompleted(message, list)
  THEN [result |-> TRUE, searches |-> 0, fetches |-> 0, fetched |-> {}]
  ELSE IF searchStatus # "OK"
  THEN [result |-> TRUE, searches |-> 1, fetches |-> 0, fetched |-> {}]
  ELSE LET hits == HeaderSubjectSearch(mbox, SearchKey(message.subject))
           marked == {k \in hits : HasMarker(mbox[k].id)}
       IN  IF marked # {}
           THEN LET first == CHOOSE k \in marked : \A l \in marked : k <= l
                IN  [result |-> TRUE, searches |-> 1,
                     fetches |-> Cardinality({k \in hits : k <= first}),
                     fetched |-> {k \in hits : k <= first}]
           ELSE [result |-> FALSE, searches |-> 1, fetches |-> Cardinality(hits),
                 fetched |-> hits]

----------------------------------------------------------------------------
(* prepare_ticket_email *)

\* the reply, or None, or the exception fetch_tickets raised; the reply's
\* Message-ID is made from n
prepare_ticket_email(message, resp, n) ==
  LET urls == parse_message(message)
      got == fetch_tickets(urls, resp)
  IN  IF Len(urls) = 0 THEN [raised |-> "none", email |-> None]
      ELSE IF got.raised # "none" THEN [raised |-> got.raised, email |-> None]
      ELSE IF Len(got.tickets) = 0 THEN [raised |-> "none", email |-> None]
      ELSE [raised |-> "none",
            email |-> [kind |-> "reply", id |-> make_msgid(n),
                       subject |-> ReplySubject(message.subject),
                       date |-> message.date + ReplyDelayMinutes, dateOK |-> TRUE,
                       inReplyTo |-> message.id, references |-> message.id,
                       flags |-> {}, body |-> Multipart(<<>>),
                       att |-> got.tickets]]

----------------------------------------------------------------------------
(* main *)

\* what the run has done with one candidate
NotReached ==
  [outcome |-> "none",    \* how the iteration ended
   checked |-> FALSE,     \* check_if_already_processed was called,
   inLedger |-> FALSE,    \*   with the Message-ID among the ids of `completed`,
   searches |-> 0,        \*   and called server.search,
   fetches |-> 0,         \*   and server.fetch, so many times
   prepared |-> FALSE,    \* prepare_ticket_email was called,
   nurls |-> 0,           \*   parse_message found so many links,
   returned |-> "-",      \*   and it returned "None", an "email", or "raised"
   appends |-> 0,         \* calls of server.append,
   resolved |-> <<>>]     \*   and of an appended reply, the tickets that were resolved

\* the initial server.search: the confirmation emails of the inbox
InitialSearch(mbox) ==
  SelectSeq([k \in 1..Len(mbox) |-> k], LAMBDA k : mbox[k].kind = "source")

\* datetime.strptime(message["Date"], EMAIL_DATE_FORMAT) < since
TooOld(message, lower) == message.date < lower

\* a loop that stops after its first candidate
ForLoopDone_early(list, i) == i > 1

\* the for loop over items[0].split() has no candidate left
ForLoopDone(list, i) == i > Len(list)

\* a main that does not test ticket_email
TicketEmailTruthy_always(ticket_email) == TRUE

\* `if ticket_email:`
TicketEmailTruthy(ticket_email) == ticket_email # None

\* a connection that selected the inbox read-write
SelectReadonly_off == FALSE

\* server.select("inbox", readonly=True)
SelectReadonly == TRUE

\* server.fetch(num, "(RFC822)") of the messages numbered in nums: the inbox
\* afterwards.  Fetching RFC822 sets \Seen unless the mailbox is read-only.
ServerFetch(mbox, nums) ==
  IF SelectReadonly THEN mbox
  ELSE [k \in 1..Len(mbox) |->
          IF k \in nums THEN [mbox[k] EXCEPT !.flags = @ \cup {"\\Seen"}] ELSE mbox[k]]

\* server.append("inbox", "\\Seen", ...): the inbox afterwards
ServerAppend(mbox, status, ticket_email) ==
  IF status = "OK" THEN Append(mbox, [ticket_email EXCEPT !.flags = {"\\Seen"}]) ELSE mbox

\* a main that records whatever server.append returned
RecordAppended_always(status, list, message) == Append(list, Record(message))

\* `if status[0] == "OK": completed.append(...)`
RecordAppended(status, list, message) ==
  IF status = "OK" THEN Append(list, Record(message)) ELSE list

\* a connection used without `with`
ContextExit_nothing(state, calls) == [state |-> state, logoutCalls |-> calls]

\* leaving `with imaplib.IMAP4_SSL(...) as server:` logs out unless that was done
ContextExit(state, calls) ==
  IF state = "LOGOUT" THEN [state |-> state, logoutCalls |-> calls]
  ELSE [state |-> "LOGOUT", logoutCalls |-> calls + 1]

NoLastRun == [valid |-> FALSE, ids |-> {}]

\* no run of main has started
NoScan ==
  /\ ledgerFile = NoFile
  /\ completed = <<>>
  /\ loaded = <<>>
  /\ pc = "idle"
  /\ items = <<>>
  /\ idx = 1
  /\ since = 1
  /\ log = <<>>
  /\ raised = "none"
  /\ imapState = "NONE"
  /\ closeCalls = 0
  /\ logoutCalls = 0
  /\ ledgerWrites = 0
  /\ mboxLen0 = 0
  /\ runs = 0
  /\ lastRun = NoLastRun
  /\ prev = NoLastRun

\* no call of fetch_tickets by itself
NoFetch ==
  [phase |-> "idle", urls |-> <<>>, resp |-> <<>>,
   result |-> [raised |-> "none", line |-> 0, at |-> 0, tickets |-> <<>>, calls |-> <<>>]]

\* no call of parse_message by itself
NoParse == [phase |-> "idle", message |-> None, result |-> <<>>]

Init ==
  /\ \E n \in 1..MaxMsgs :
       \E shape \in [1..n -> Shapes] :
         \E extra \in {<<>>} \cup {<<OtherEmail(n + 1, SearchKey(s), m)>> :
                                     s \in Subjects, m \in BOOLEAN} :
           mailbox = [i \in 1..n |-> SourceEmail(i, shape[i])] \o extra
  /\ NoScan
  /\ fetchRun = NoFetch
  /\ parseRun = NoParse

\* main up to the for loop: load the ledger, connect, search
StartRun ==
  /\ pc \in {"idle", "done", "exited", "crashed", "killed"}
  /\ runs < MaxRuns
  /\ runs' = runs + 1
  /\ completed' = get_completed_messages(ledgerFile)
  /\ loaded' = get_completed_messages(ledgerFile)
  /\ prev' = lastRun
  /\ mboxLen0' = Len(mailbox)
  /\ idx' = 1
  /\ closeCalls' = 0
  /\ ledgerWrites' = 0
  /\ \E lower \in 1..(Len(InitialSearch(mailbox)) + 1) : since' = lower
  /\ \E status \in Status :
       IF status # "OK"
       THEN \* sys.exit("Could not search for emails.")
            /\ items' = <<>>
            /\ log' = <<>>
            /\ pc' = "exited"
            /\ raised' = "SystemExit"
            /\ imapState' = ContextExit("SELECTED", 0).state
            /\ logoutCalls' = ContextExit("SELECTED", 0).logoutCalls
            /\ lastRun' = NoLastRun
       ELSE /\ items' = InitialSearch(mailbox)
            /\ log' = [p \in 1..Len(InitialSearch(mailbox)) |-> NotReached]
            /\ pc' = "scan"
            /\ raised' = "none"
            /\ imapState' = "SELECTED"
            /\ logoutCalls' = 0
            /\ lastRun' = lastRun
  /\ UNCHANGED <<fetchRun, parseRun, mailbox, ledgerFile>>

\* the loop goes on to the next candidate
Advance(entry, list, mbox) ==
  /\ log' = [log EXCEPT ![idx] = entry]
  /\ completed' = list
  /\ mailbox' = mbox
  /\ idx' = idx + 1
  /\ UNCHANGED <<fetchRun, parseRun, ledgerFile, loaded, pc, items, since, raised, imapState, closeCalls,
                 logoutCalls, ledgerWrites, mboxLen0, runs, lastRun, prev>>

\* an exception leaves the loop, the with block and main
Raise(entry, exc, mbox) ==
  /\ log' = [log EXCEPT ![idx] = entry]
  /\ mailbox' = mbox
  /\ pc' = "crashed"
  /\ raised' = exc
  /\ imapState' = ContextExit(imapState, logoutCalls).state
  /\ logoutCalls' = ContextExit(imapState, logoutCalls).logoutCalls
  /\ lastRun' = NoLastRun
  /\ UNCHANGED <<fetchRun, parseRun, ledgerFile, completed, loaded, items, idx, since,
                 closeCalls, ledgerWrites, mboxLen0, runs, prev>>

\* one iteration of the for loop of main
ProcessMessage ==
  /\ pc = "scan"
  /\ ~ForLoopDone(items, idx)
  /\ LET message == mailbox[items[idx]]
         mbox1 == ServerFetch(mailbox, {items[idx]})
     IN
     \E fetchStatus \in Status :
       IF fetchStatus # "OK"
       THEN Advance([NotReached EXCEPT !.outcome = "FETCH_FAILED"], completed, mailbox)
       ELSE IF ~message.dateOK
       THEN \* datetime.strptime raises ValueError
            Raise([NotReached EXCEPT !.outcome = "RAISED"], "ValueError", mbox1)
       ELSE IF TooOld(message, since)
       THEN Advance([NotReached EXCEPT !.outcome = "TOO_OLD"], completed, mbox1)
       ELSE \E searchStatus \in Status :
         LET chk == check_if_already_processed(mbox1, message, completed, searchStatus)
             mbox2 == ServerFetch(mbox1, chk.fetched)
             seen == [NotReached EXCEPT !.checked = TRUE,
                                        !.inLedger = message.id \in Ids(completed),
                                        !.searches = chk.searches,
                                        !.fetches = chk.fetches]
         IN
         IF chk.result
         THEN Advance([seen EXCEPT !.outcome = "ALREADY_PROCESSED"],
                      Append(completed, Record(message)), mbox2)
         ELSE \E resp \in [1..Len(parse_message(message)) -> Responses] :
           LET prep == prepare_ticket_email(message, resp, Len(mailbox) + 1)
               made == [seen EXCEPT !.prepared = TRUE,
                                    !.nurls = Len(parse_message(message)),
                                    !.returned = IF prep.raised # "none" THEN "raised"
                                                 ELSE IF prep.email = None THEN "None"
                                                 ELSE "email"]
               \* the request ids of the links that the ticket host resolved to a PDF
               pdfs == SelectSeq([j \in 1..Len(resp) |-> j],
                                 LAMBDA j : /\ resp[j].get1 = "ok"
                                            /\ resp[j].scripts \in ScriptsMatch
                                            /\ resp[j].get2 = "ok"
                                            /\ resp[j].ctype = "application/pdf")
           IN
           IF prep.raised # "none"
           THEN Raise([made EXCEPT !.outcome = "RAISED"], prep.raised, mbox2)
           ELSE IF ~TicketEmailTruthy(prep.email)
           THEN Advance([made EXCEPT !.outcome = IF Len(parse_message(message)) = 0
                                                 THEN "NO_URLS" ELSE "NO_TICKETS"],
                        completed, mbox2)
           ELSE \E pushbullet \in {"ok", "raises"} :
             IF pushbullet # "ok"
             THEN Raise([made EXCEPT !.outcome = "RAISED"], "PushbulletError", mbox2)
             ELSE \E status \in Status :
               Advance([made EXCEPT !.outcome = IF status = "OK" THEN "APPENDED"
                                                ELSE "APPEND_FAILED",
                                    !.appends = 1,
                                    !.resolved = IF status = "OK"
                                                 THEN [t \in 1..Len(pdfs) |->
                                                         <<"r", "/", ToString(pdfs[t])>>]
                                                 ELSE <<>>],
                       RecordAppended(status, completed, message),
                       ServerAppend(mbox2, status, prep.email))

\* main after the for loop: write the ledger, close, log out
FinishRun ==
  /\ pc = "scan"
  /\ ForLoopDone(items, idx)
  /\ ledgerFile' = FileOf(completed)
  /\ ledgerWrites' = ledgerWrites + 1
  /\ closeCalls' = closeCalls + 1
  /\ imapState' = ContextExit("LOGOUT", logoutCalls + 1).state
  /\ logoutCalls' = ContextExit("LOGOUT", logoutCalls + 1).logoutCalls
  /\ pc' = "done"
  /\ lastRun' = [valid |-> TRUE,
                 ids |-> {mailbox[items[p]].id : p \in
                            {q \in 1..Len(items) :
                               log[q].outcome \in {"APPENDED", "ALREADY_PROCESSED"}}}]
  /\ UNCHANGED <<fetchRun, parseRun, mailbox, completed, loaded, items, idx, since, log, raised, mboxLen0,
                 runs, prev>>

\* the process is killed during the scan: nothing is written, nothing is closed
Kill ==
  /\ pc = "scan"
  /\ pc' = "killed"
  /\ lastRun' = NoLastRun
  /\ UNCHANGED <<fetchRun, parseRun, mailbox, ledgerFile, completed, loaded, items, idx, since, log, raised,
                 imapState, closeCalls, logoutCalls, ledgerWrites, mboxLen0, runs, prev>>

\* between two runs the ledger file is deleted
LedgerLost ==
  /\ pc \in {"done", "exited", "crashed", "killed"}
  /\ ledgerFile.exists
  /\ ledgerFile' = NoFile
  /\ lastRun' = NoLastRun
  /\ UNCHANGED <<fetchRun, parseRun, mailbox, completed, loaded, pc, items, idx, since, log, raised,
                 imapState, closeCalls, logoutCalls, ledgerWrites, mboxLen0, runs, prev>>

Next == StartRun \/ ProcessMessage \/ FinishRun \/ Kill \/ LedgerLost

Spec == Init /\ [][Next]_vars

-----------------------------------------------------------------------------
(* fetch_tickets by itself: a list of URLs and what the ticket host answers  *)
(* for each of them are drawn, and one step calls the function.              *)

\* the longest list of URLs fetch_tickets is called with
MaxFetchUrls == 3

\* a link to the ticket host that has no fragment
PlainLink(j) == <<TicketHost, "/", ToString(j)>>

InitFetch ==
  /\ mailbox = <<>>
  /\ NoScan
  /\ parseRun = NoParse
  /\ \E n \in 0..MaxFetchUrls :
       \E frag \in [1..n -> BOOLEAN] :
         \E resp \in [1..n -> Responses] :
           fetchRun = [phase |-> "called",
                       urls |-> [j \in 1..n |-> IF frag[j] THEN TicketLink(j)
                                                         ELSE PlainLink(j)],
                       resp |-> resp,
                       result |-> NoFetch.result]

FetchTickets ==
  /\ fetchRun.phase = "called"
  /\ fetchRun' = [fetchRun EXCEPT !.phase = "returned",
                                  !.result = fetch_tickets(fetchRun.urls, fetchRun.resp)]
  /\ UNCHANGED <<scanVars, parseRun>>

NextFetch == FetchTickets

SpecFetch == InitFetch /\ [][NextFetch]_vars

-----------------------------------------------------------------------------
(* parse_message by itself: a message body is drawn, and one step calls the  *)
(* function.                                                                 *)

\* the most direct parts of a multipart body
MaxParts == 2

\* a link to another host
OtherLink == <<"www.thetrainline.com", "/">>

\* the links of an HTML part, in document order
HrefLists ==
  {<<>>, <<TicketLink(1)>>, <<OtherLink, TicketLink(1)>>,
   <<TicketLink(2), OtherLink, TicketLink(1)>>, <<TicketLink(1), TicketLink(1)>>}

\* the parts of a multipart body: plain text, HTML, or a multipart part that
\* holds an HTML part
Parts ==
  {Part("text/plain", <<>>)}
  \cup {Part("text/html", h) : h \in HrefLists}
  \cup {Multipart(<<Part("text/html", h)>>) : h \in HrefLists}

Bodies ==
  {Part("text/plain", <<>>)}
  \cup {Part("text/html", h) : h \in HrefLists}
  \cup UNION {{Multipart(ps) : ps \in [1..n -> Parts]} : n \in 0..MaxParts}

InitParse ==
  /\ mailbox = <<>>
  /\ NoScan
  /\ fetchRun = NoFetch
  /\ \E body \in Bodies :
       parseRun = [phase |-> "called",
                   message |-> [None EXCEPT !.kind = "source", !.body = body],
                   result |-> <<>>]

ParseMessage ==
  /\ parseRun.phase = "called"
  /\ parseRun' = [parseRun EXCEPT !.phase = "returned",
                                  !.result = parse_message(parseRun.message)]
  /\ UNCHANGED <<scanVars, fetchRun>>

NextParse == ParseMessage

SpecParse == InitParse /\ [][NextParse]_vars

----------------------------------------------------------------------------
(* Properties *)

\* the Message-ID of the p-th candidate of the run
CandidateId(p) == mailbox[items[p]].id

Candidates == 1..Len(items)

\* the replies to a Message-ID among the messages numbered from..to of the inbox
RepliesTo(id, from, to) ==
  {k \in from..to : mailbox[k].kind # "source" /\ mailbox[k].inReplyTo = id}

\* the run added a record of the p-th candidate to `completed`
RecordAdded(p) == CountId(completed, CandidateId(p)) > CountId(loaded, CandidateId(p))

\* the run has ended by itself: main returned, called sys.exit or raised
Ended == pc \in {"done", "exited", "crashed"}

IsPrefix(s, t) == Len(s) <= Len(t) /\ SubSeq(t, 1, Len(s)) = s

\* C1 as stated: a run that completes right after a completed run, with that
\* run's ledger loaded, calls server.append for no candidate.
C1_SecondRunAppendsNothing ==
  (prev.valid /\ pc = "done") => \A p \in Candidates : log[p].appends = 0

\* C1, amended: in a run right after a completed run, with that run's ledger
\* loaded, server.append is not called for any source message that ended the
\* earlier run APPENDED or ALREADY_PROCESSED, and nothing is appended for it.
C1_AnsweredNotAppendedAgain ==
  prev.valid =>
    \A p \in Candidates :
      CandidateId(p) \in prev.ids =>
        /\ log[p].appends = 0
        /\ log[p].outcome \in {"none", "FETCH_FAILED", "TOO_OLD", "RAISED", "ALREADY_PROCESSED"}
        /\ RepliesTo(CandidateId(p), mboxLen0 + 1, Len(mailbox)) = {}

\* a second run has completed and found an answered message in the loaded ledger
C1_Witness ==
  /\ prev.valid
  /\ pc = "done"
  /\ \E p \in Candidates :
       /\ CandidateId(p) \in prev.ids
       /\ log[p].inLedger
       /\ log[p].outcome = "ALREADY_PROCESSED"

\* C2: whatever the runs, and however they ended (killed before the ledger was
\* written, ledger file lost), the inbox holds at most one reply of the script
\* to each source message.
C2_AtMostOneReply ==
  \A k \in 1..Len(mailbox) :
    mailbox[k].kind = "source" =>
      Cardinality(RepliesTo(mailbox[k].id, 1, Len(mailbox))) <= 1

\* C3: a candidate whose server.append returned a non-OK status gets no record
\* in `completed` in that run, and none in the ledger file the run writes.
C3_FailedAppendNotRecorded ==
  \A p \in Candidates :
    log[p].outcome = "APPEND_FAILED" =>
      /\ ~RecordAdded(p)
      /\ (pc = "done" /\ ledgerFile.exists) =>
           CountId(ledgerFile.list, CandidateId(p)) = CountId(loaded, CandidateId(p))

\* a run with a failed append has written the ledger
C3_Witness ==
  /\ pc = "done"
  /\ ledgerFile.exists
  /\ \E p \in Candidates : log[p].outcome = "APPEND_FAILED" /\ log[p].appends = 1

\* C4: every record the run adds to `completed` is of a source message to which
\* the inbox holds a reply with the marker in its Message-ID: one that replies
\* to it, or one the corroboration search finds.
C4_RecordedOnlyIfAnswered ==
  \A p \in Candidates :
    RecordAdded(p) =>
      \E k \in 1..Len(mailbox) :
        /\ HasMarker(mailbox[k].id)
        /\ \/ mailbox[k].inReplyTo = CandidateId(p)
           \/ k \in HeaderSubjectSearch(mailbox, SearchKey(mailbox[items[p]].subject))

\* C5: a non-2xx answer to a GET of fetch_tickets does not end the scan: no
\* HTTPError leaves main.
C5_TransportErrorContained ==
  raised # "HTTPError"

C7_Tier1ShortCircuits ==
  \A p \in Candidates :
    (log[p].checked /\ log[p].inLedger) =>
      /\ log[p].searches = 0
      /\ log[p].fetches = 0
      /\ log[p].outcome = "ALREADY_PROCESSED"
      /\ log[p].appends = 0
      /\ ~log[p].prepared

\* a message in the loaded ledger has been checked
C7_Witness ==
  \E p \in Candidates :
    log[p].checked /\ log[p].inLedger /\ CandidateId(p) \in Ids(loaded)

\* C8 as stated: every run that opened the connection and ended by itself has
\* written the ledger file exactly once.
C8_WrittenOncePerRun ==
  Ended => ledgerWrites = 1

\* in every state: at most one write, none before every candidate has finished,
\* one in a run that reached the end of the loop, none in a run that did not
C8_WriteInv ==
  /\ ledgerWrites <= 1
  /\ ledgerWrites = 1 =>
       /\ pc = "done"
       /\ \A p \in Candidates : log[p].outcome # "none"
  /\ pc = "done" => ledgerWrites = 1
  /\ pc \in {"exited", "crashed", "killed"} => ledgerWrites = 0

\* in every step of a run: `completed` only grows, and a write happens after
\* the last candidate and stores `completed`
C8_WriteStep ==
  /\ pc = "scan" => IsPrefix(completed, completed')
  /\ ledgerWrites' > ledgerWrites =>
       /\ pc = "scan"
       /\ idx > Len(items)
       /\ ledgerFile' = [exists |-> TRUE, list |-> completed]

\* C8, amended: the ledger file is written at most once per run, only after
\* every candidate of the initial search has finished processing, exactly once
\* in a run that reaches the end of the loop and not at all in a run that
\* exits on a non-OK initial search or is left by an exception; `completed`
\* only grows during the run.
C8_WrittenOnceAfterScan ==
  []C8_WriteInv /\ [][C8_WriteStep]_vars

\* a run over two candidates has added a record and written the ledger
C8_Witness ==
  /\ pc = "done"
  /\ ledgerWrites = 1
  /\ Len(items) >= 2
  /\ Len(completed) > Len(loaded)
  /\ ledgerFile = [exists |-> TRUE, list |-> completed]

\* C9 as stated: on every exit path of main after the connection was opened,
\* server.close and server.logout have both been called.
C9_ClosedAndLoggedOut ==
  Ended => (closeCalls >= 1 /\ logoutCalls >= 1)

\* C9, amended: on every exit path of main after the connection was opened the
\* connection is logged out, exactly once; server.close is called on normal
\* completion only.
C9_LoggedOutOnEveryExit ==
  Ended =>
    /\ imapState = "LOGOUT"
    /\ logoutCalls = 1
    /\ closeCalls = (IF pc = "done" THEN 1 ELSE 0)

\* an exception has left main during the scan
C9_Witness ==
  /\ pc = "crashed"
  /\ raised \in {"HTTPError", "IndexError", "PushbulletError", "ValueError"}
  /\ imapState = "LOGOUT"

\* the outcomes of a candidate that was fetched and is in the time window
TerminalOutcomes ==
  {"ALREADY_PROCESSED", "NO_URLS", "NO_TICKETS", "APPENDED", "APPEND_FAILED"}

\* C10: when a run that entered the loop has ended, every candidate of the
\* initial search that could be fetched and is in the time window has one of
\* the five terminal outcomes, and server.append was called at most once for it.
C10_EveryCandidateTerminal ==
  pc \in {"done", "crashed"} =>
    \A p \in Candidates :
      /\ log[p].outcome \in TerminalOutcomes \cup {"FETCH_FAILED", "TOO_OLD"}
      /\ log[p].appends <= 1

\* C11: a candidate whose reply was composed and appended with status OK has
\* exactly one reply among the messages appended in the run; that reply has
\* the subject "Re: " and the source's subject, In-Reply-To and References
\* equal to the source's Message-ID, the marker in its own Message-ID, the
\* resolved tickets as attachments in URL order, and the source's date plus
\* ten minutes; the source's Message-ID is recorded in `completed`, and in the
\* ledger file the run writes at its end.
C11_AppendedReply ==
  \A p \in Candidates :
    log[p].outcome = "APPENDED" =>
      LET source == mailbox[items[p]]
          replies == {k \in (mboxLen0 + 1)..Len(mailbox) :
                        mailbox[k].inReplyTo = source.id}
      IN  /\ log[p].checked /\ ~log[p].inLedger /\ log[p].returned = "email"
          /\ Cardinality(replies) = 1
          /\ \A k \in replies :
               /\ mailbox[k].subject = <<"R", "e", ":", " ">> \o source.subject
               /\ mailbox[k].references = source.id
               /\ mailbox[k].id.idstring = "cmenon12-download-trainline-tickets"
               /\ Len(mailbox[k].att) >= 1
               /\ mailbox[k].att = log[p].resolved
               /\ mailbox[k].date = source.date + 10
          /\ source.id \in Ids(completed)
          /\ pc = "done" /\ ledgerFile.exists => source.id \in Ids(ledgerFile.list)

\* a run ended that appended a reply with two tickets, the second link's after
\* the first's, and wrote the ledger
C11_Witness ==
  /\ pc = "done"
  /\ ledgerFile.exists
  /\ \E p \in Candidates :
       /\ log[p].outcome = "APPENDED"
       /\ log[p].resolved = <<<<"r", "/", "1">>, <<"r", "/", "2">>>>
       /\ CandidateId(p) \in Ids(ledgerFile.list)
       /\ \E k \in (mboxLen0 + 1)..Len(mailbox) :
            mailbox[k].inReplyTo = CandidateId(p) /\ Len(mailbox[k].att) = 2

\* C14: a failure of send_via_pushbullet does not abort the scan: no run ends
\* with the exception it raised, and every reply that was composed is handed
\* to server.append.
C14_PushFailureContained ==
  /\ raised # "PushbulletError"
  /\ \A p \in Candidates :
       log[p].outcome # "none" /\ log[p].returned = "email" => log[p].appends = 1

\* what a step may do to the inbox: append replies, during the scan
C15_MailboxStep ==
  /\ IsPrefix(mailbox, mailbox')
  /\ \A k \in (Len(mailbox) + 1)..Len(mailbox') : mailbox'[k].kind = "reply"
  /\ mailbox' # mailbox => pc = "scan"

\* C15: no step changes or removes a message of the inbox, its flags
\* included; the only change to the inbox is a reply appended by the scan.
C15_SourceEmailsReadOnly == [][C15_MailboxStep]_vars

\* a run ended that fetched a candidate and the hits of its subject search,
\* and appended a reply; the messages that were there before are unread still
C15_Witness ==
  /\ pc = "done"
  /\ Len(mailbox) = mboxLen0 + 1
  /\ \E p \in Candidates : log[p].outcome = "APPENDED" /\ log[p].fetches >= 1
  /\ \A k \in 1..mboxLen0 : mailbox[k].flags = {}
  /\ mailbox[Len(mailbox)].flags = {"\\Seen"}

\* C19: the ledger file holds no two records with the same id.
C19_OneRecordPerId ==
  ledgerFile.exists =>
    \A id \in Ids(ledgerFile.list) : CountId(ledgerFile.list, id) = 1

-----------------------------------------------------------------------------
(* Properties of fetch_tickets *)

\* the calls fetch_tickets made on the session of the j-th URL
SessionCalls(j) ==
  SelectSeq(fetchRun.result.calls, LAMBDA c : c.session = j)

\* the loop of fetch_tickets came to the j-th URL
Reached(j) ==
  \E c \in 1..Len(fetchRun.result.calls) :
    fetchRun.result.calls[c] = GetCall(j, fetchRun.urls[j], fetchRun.resp[j].get1)

\* an exception left fetch_tickets while it was at the j-th URL
RaisedAt(j) == fetchRun.result.raised # "none" /\ fetchRun.result.at = j

\* the first script block of a page that has inline content, "none" without one
FirstInline(scripts) ==
  LET inline == {i \in 1..Len(scripts) : scripts[i] # "null"}
  IN  IF inline = {} THEN "none"
      ELSE scripts[CHOOSE i \in inline : \A k \in inline : i <= k]

\* the request id in the page of the j-th URL
RequestIdOf(j) == <<"r", "/", ToString(j)>>

\* nothing but the first GET was done for the j-th URL, and the loop went on
SkippedAfterFirstGet(j) ==
  /\ ~RaisedAt(j)
  /\ Len(SessionCalls(j)) = 1
  /\ \A t \in 1..Len(fetchRun.result.tickets) : fetchRun.result.tickets[t] # RequestIdOf(j)
  /\ j < Len(fetchRun.urls) => Reached(j + 1)

\* C12: a URL whose landing page has no script block with inline content, or
\* whose first such block does not hold the request id, makes fetch_tickets
\* raise nothing, add no ticket, issue no second GET, and go on with the
\* remaining URLs.
C12_MissingRequestIdSkipped ==
  fetchRun.phase = "returned" =>
    \A j \in 1..Len(fetchRun.urls) :
      (/\ Reached(j)
       /\ fetchRun.resp[j].get1 = "ok"
       /\ FirstInline(fetchRun.resp[j].scripts) # "match")
      => SkippedAfterFirstGet(j)

\* the URL has a fragment
HasFragment(url) == \E i \in 1..Len(url) : url[i] = "#"

\* the text of the URL after its "#"
Fragment(url) ==
  LET h == CHOOSE i \in 1..Len(url) : url[i] = "#" /\ \A k \in 1..(i - 1) : url[k] # "#"
  IN  SubSeq(url, h + 1, Len(url))

\* the page of the j-th URL gives a request id, and the URL a token
YieldsRequestId(j) ==
  /\ fetchRun.resp[j].get1 = "ok"
  /\ FirstInline(fetchRun.resp[j].scripts) = "match"
  /\ HasFragment(fetchRun.urls[j])

\* the second GET of the j-th URL answers 2xx with something that is no PDF
NonPdf(j) ==
  /\ YieldsRequestId(j)
  /\ fetchRun.resp[j].get2 = "ok"
  /\ fetchRun.resp[j].ctype # "application/pdf"

\* the second GET of the j-th URL answers 2xx with a PDF
Resolves(j) ==
  /\ YieldsRequestId(j)
  /\ fetchRun.resp[j].get2 = "ok"
  /\ fetchRun.resp[j].ctype = "application/pdf"

\* the request ids of the URLs that resolve to a PDF, in URL order
ResolvedInOrder ==
  LET js == SelectSeq([j \in 1..Len(fetchRun.urls) |-> j], Resolves)
  IN  [t \in 1..Len(js) |-> RequestIdOf(js[t])]

\* C13: a second GET that succeeds with a content type other than
\* application/pdf raises nothing and adds no ticket, and the loop goes on to
\* the next URL; what fetch_tickets returns is the tickets of the URLs that
\* did resolve, earlier and later ones, in URL order.
C13_NonPdfSkipped ==
  fetchRun.phase = "returned" =>
    /\ \A j \in 1..Len(fetchRun.urls) :
         Reached(j) /\ NonPdf(j) =>
           /\ ~RaisedAt(j)
           /\ \A t \in 1..Len(fetchRun.result.tickets) :
                fetchRun.result.tickets[t] # RequestIdOf(j)
           /\ j < Len(fetchRun.urls) => Reached(j + 1)
    /\ fetchRun.result.raised = "none" => fetchRun.result.tickets = ResolvedInOrder

\* a PDF, then something that is no PDF, then a PDF: both PDFs are returned
C13_Witness ==
  /\ fetchRun.phase = "returned"
  /\ Len(fetchRun.urls) = 3
  /\ Resolves(1) /\ NonPdf(2) /\ Resolves(3)
  /\ fetchRun.result.raised = "none"
  /\ fetchRun.result.tickets = <<RequestIdOf(1), RequestIdOf(3)>>

\* C16: on the session of a URL the calls come in this order: the GET of the
\* URL, answered 2xx; then the cookie token-R set to the fragment of the URL;
\* then the GET of the resource endpoint for R.  A URL whose page gives R and
\* that has a fragment gets all three.
C16_CookieBeforeSecondGet ==
  fetchRun.phase = "returned" =>
    \A j \in 1..Len(fetchRun.urls) :
      LET sc == SessionCalls(j)
      IN  /\ Len(sc) <= 3
          /\ Len(sc) >= 2 =>
               /\ sc[1].op = "get"
               /\ sc[1].url = fetchRun.urls[j]
               /\ sc[1].status = "ok"
               /\ sc[2].op = "cookies.set"
               /\ sc[2].name = <<"token-">> \o RequestIdOf(j)
               /\ sc[2].value = Fragment(fetchRun.urls[j])
          /\ Len(sc) = 3 =>
               /\ sc[3].op = "get"
               /\ sc[3].url = <<TicketHost, "/", "resource", "/">> \o RequestIdOf(j)
          /\ Reached(j) /\ YieldsRequestId(j) => Len(sc) = 3

\* two URLs went through both steps, each on its own session
C16_Witness ==
  /\ fetchRun.phase = "returned"
  /\ Len(fetchRun.urls) >= 2
  /\ YieldsRequestId(1) /\ Len(SessionCalls(1)) = 3
  /\ YieldsRequestId(2) /\ Len(SessionCalls(2)) = 3
  /\ SessionCalls(1)[2].name # SessionCalls(2)[2].name

\* the page of the j-th URL has a request id, but not in its first script
\* block with inline content
MatchOnlyLater(j) ==
  /\ fetchRun.resp[j].get1 = "ok"
  /\ FirstInline(fetchRun.resp[j].scripts) \notin {"none", "match"}
  /\ \E i \in 1..Len(fetchRun.resp[j].scripts) : fetchRun.resp[j].scripts[i] = "match"

\* C17: only the first script block with inline content is searched: a URL
\* whose request id stands in a later block gets no second GET and no ticket,
\* and a URL whose first block with inline content holds it is resolved, also
\* when blocks without inline content come before it.
C17_FirstInlineScriptOnly ==
  fetchRun.phase = "returned" =>
    \A j \in 1..Len(fetchRun.urls) :
      Reached(j) =>
        /\ MatchOnlyLater(j) =>
             /\ Len(SessionCalls(j)) = 1
             /\ \A t \in 1..Len(fetchRun.result.tickets) :
                  fetchRun.result.tickets[t] # RequestIdOf(j)
        /\ Resolves(j) =>
             \E c \in 1..Len(fetchRun.result.calls) :
               /\ fetchRun.result.calls[c].session = j
               /\ fetchRun.result.calls[c].url
                    = <<TicketHost, "/", "resource", "/">> \o RequestIdOf(j)

\* a request id in a later block was passed over, and one behind a block
\* without inline content was found
C17_Witness ==
  /\ fetchRun.phase = "returned"
  /\ Len(fetchRun.urls) = 2
  /\ fetchRun.resp[1].scripts = <<"nomatch", "match">>
  /\ fetchRun.resp[2].scripts = <<"null", "match">>
  /\ Resolves(2)
  /\ fetchRun.result.raised = "none"
  /\ fetchRun.result.tickets = <<RequestIdOf(2)>>

-----------------------------------------------------------------------------
(* Properties of parse_message *)

\* the parts of a multipart structure that are not multipart, as a walk of
\* the structure meets them
RECURSIVE Walk(_, _)
Walk(parts, i) ==
  IF i > Len(parts) THEN <<>>
  ELSE (IF parts[i].ctype = "multipart/alternative" THEN Walk(parts[i].parts, 1)
        ELSE <<parts[i]>>) \o Walk(parts, i + 1)

\* the links of the first text/html part that a walk of the body meets
FirstHtmlWalked(body) ==
  LET html == SelectSeq(Walk(<<body>>, 1), LAMBDA part : part.ctype = "text/html")
  IN  IF html = <<>> THEN <<>> ELSE html[1].hrefs

\* C18: parse_message returns the ticket-host links of the first text/html
\* part found by walking the multipart structure, in document order with
\* duplicates kept, and the empty list when there is no HTML part.
C18_FirstHtmlPartWalked ==
  parseRun.phase = "returned" =>
    parseRun.result
      = SelectSeq(FirstHtmlWalked(parseRun.message.body),
                  LAMBDA href : \E i \in 1..Len(href) : href[i] = "download.thetrainline.com")

====
